---- MODULE Spec2Model ----
(***************************************************************************)
(* A model of gofetch (github.com/c4milo/gofetch), src/gofetch.go.  The     *)
(* file holds two revisions of the package.  Spec models the later one, the *)
(* Fetcher (lines 247-649): Fetcher.Fetch, Fetcher.verify,                  *)
(* Fetcher.parallelFetch, Fetcher.assembleChunks, Fetcher.fetch and         *)
(* fetchWriter.Write.  ConfigSpec models the earlier one, Fetch(Config)     *)
(* (lines 1-245), with the steps the two have in common.                    *)
(*                                                                         *)
(* The resource served has `size` bytes; the byte at offset k is written   *)
(* k, so a file is a sequence of offsets and "equal to the resource" is    *)
(* <<0, 1, ..., size-1>>.  The progress channel is unbuffered, as in the   *)
(* tests and the README: a send completes only together with a receive of  *)
(* the observer.  One Fetch call runs at a time; calls follow one another  *)
(* on the same disk.                                                       *)
(***************************************************************************)
EXTENDS Integers, Sequences, FiniteSets, TLC

\* ------------------------------------------------------------- bounds
MaxLen == 2      \* the resource has 0..MaxLen bytes
MaxConc == 2     \* WithConcurrency(c), c up to MaxConc
MaxCalls == 2    \* Fetch calls in one behaviour
MaxWrite == 2    \* bytes one Write call of io.Copy may carry
PlanLen == 12    \* range planning is checked for the lengths 0..PlanLen
PlanConc == 5    \* and the concurrency levels 1..PlanConc
ResumeLen == 4   \* a fetch over left chunk files: lengths 1..ResumeLen
ResumeConc == 3  \* and the concurrency levels 1..ResumeConc, before and now

Tokens == {"", "a", "b"}              \* ETag header values ("" = no header)
ConcValues == (-1)..MaxConc           \* WithConcurrency takes any int
Workers == 0..(MaxConc - 1)

\* ------------------------------------------------------------- helpers
Abs(x) == IF x < 0 THEN -x ELSE x

Min(a, b) == IF a < b THEN a ELSE b

\* Go's integer division truncates toward zero (b # 0).
GoDiv(a, b) ==
    LET q == Abs(a) \div Abs(b)
    IN  IF (a < 0) # (b < 0) THEN -q ELSE q

\* Go's remainder has the sign of the dividend (b # 0).
GoMod(a, b) == a - b * GoDiv(a, b)

\* The bytes lo..hi of the resource, as a sequence of offsets.
Bytes(lo, hi) == [k \in 1..(hi - lo + 1) |-> lo + k - 1]

Take(s, n) == SubSeq(s, 1, Min(n, Len(s)))

Drop(s, n) == SubSeq(s, Min(n, Len(s)) + 1, Len(s))

RECURSIVE SumSeq(_)
SumSeq(s) == IF s = <<>> THEN 0 ELSE Head(s) + SumSeq(Tail(s))

\* ------------------------------------------------------------- range planning
\* parallelFetch, lines 479-481
chunkSize(length, c) == GoDiv(length, c)

remainingSize(length, c) == GoMod(length, c)

\* Every range starting at the first byte of the resource.
RangeMinZero(length, c, i) == 0

\* parallelFetch, line 490
RangeMin(length, c, i) == chunkSize(length, c) * i

\* RangeMax without the remainder added to the last range.
RangeMaxNoRemainder(length, c, i) == chunkSize(length, c) * (i + 1)

\* parallelFetch, lines 491-496
RangeMax(length, c, i) ==
    chunkSize(length, c) * (i + 1)
        + (IF i = c - 1 THEN remainingSize(length, c) ELSE 0)

\* ------------------------------------------------------------- the server
\* What a range-honouring server (http.ServeContent, as in the tests) answers to
\* "Range: bytes=first-last" ("bytes=first-" when open) for a resource of sz
\* bytes: the bytes asked for, or 416 for a range it cannot satisfy or parse.
ServeRange(sz, first, last, open) ==
    IF first < 0 \/ first >= sz \/ (~open /\ first > last)
    THEN [ok |-> FALSE, body |-> <<>>]
    ELSE [ok |-> TRUE,
          body |-> Bytes(first, IF open THEN sz - 1 ELSE Min(last, sz - 1))]

\* A server that ignores the Range header streams the whole resource (200).
ServeWhole(sz) == [ok |-> TRUE, body |-> Bytes(0, sz - 1)]

\* The answer r to the request h for a resource of sz bytes is the one a
\* range-honouring server gives.
Honoured(sz, h, r) == r = ServeRange(sz, h.first, h.last, h.open)

\* ------------------------------------------------------------- state
VARIABLES
    concurrency,  \* Fetcher.concurrency
    etag,         \* Fetcher.etag
    algorithm,    \* Fetcher.algorithm
    checksum,     \* Fetcher.checksum
    size,         \* the resource's number of bytes
    pc,           \* where the Fetch call is
    calls,        \* Fetch calls started so far
    sink,         \* progressCh: "nil", "open" or "closed"
    length,       \* res.ContentLength of the preflight response
    chunksDir,    \* the chunk directory exists
    chunks,       \* chunk files: index -> content
    dest,         \* the destination file
    markers,      \* the ETag marker files under workDir/fileName
    wpc,          \* where each chunk worker is
    wmin, wmax,   \* the min and max each worker was started with
    wcur,         \* currFileSize: the chunk file's size when the worker opened it
    wbody,        \* what is left to read of each worker's response body
    wpend,        \* the WrittenBytes of the report each worker is sending
    wlocal,       \* the value of errs each worker read for its append
    errs,         \* parallelFetch's errs slice (worker indexes)
    failed,       \* the workers whose fetch returned an error
    evts,         \* the reports the observer received, per worker
    reqs,         \* the GET requests issued in this call
    closes,       \* how many times the sink was closed in this call
    lateSend,     \* a worker sent on the sink after it was closed
    assembles,    \* how many times assembleChunks ran in this call
    joined,       \* every worker had terminated when the sink was closed
    result,       \* "none", "file", "err" or "panic"
    failedAt,     \* the stage whose error Fetch returned, "" if none
    how,          \* "", "cache" (skipped) or "download" (parallelFetch called)
    token,        \* the ETag header of the preflight response, trimmed
    hadMarker,    \* the marker of token existed when the call looked for it
    sizeOk,       \* the destination file then had the reported size
    ignored,      \* a GET of this call was answered without regard to its Range
    offset,       \* the position of the *os.File Fetch returned, NoHandle if nil
    stopped       \* the observer has stopped receiving

fetcher == <<concurrency, etag, algorithm, checksum>>
disk == <<chunksDir, chunks, dest, markers>>
workers == <<wpc, wmin, wmax, wcur, wcur, wbody, wpend, wlocal>>
history == <<failed, evts, reqs, closes, lateSend, assembles, joined, result, failedAt, offset,
             how, token, hadMarker, sizeOk, ignored>>
vars == <<fetcher, size, pc, calls, sink, length, disk, workers, errs, history, stopped>>

NoFile == [exists |-> FALSE, data |-> <<>>]

\* Fetch returned a nil *os.File.
NoHandle == -1

\* file.Seek(0, 0): the position of the handle is 0 afterwards, whatever it was.
SeekStart(pos) == 0

File(d) == [exists |-> TRUE, data |-> d]

\* New(opts...), lines 343-355, on an empty disk.
Init ==
    /\ concurrency \in ConcValues
    /\ etag \in BOOLEAN
    /\ algorithm = ""
    /\ checksum = ""
    /\ size \in 0..MaxLen
    /\ pc = "idle"
    /\ calls = 0
    /\ sink = "nil"
    /\ length = 0
    /\ chunksDir = FALSE
    /\ chunks = [i \in Workers |-> NoFile]
    /\ dest = NoFile
    /\ markers = {}
    /\ wpc = [i \in Workers |-> "off"]
    /\ wmin = [i \in Workers |-> 0]
    /\ wmax = [i \in Workers |-> 0]
    /\ wcur = [i \in Workers |-> 0]
    /\ wbody = [i \in Workers |-> <<>>]
    /\ wpend = [i \in Workers |-> 0]
    /\ wlocal = [i \in Workers |-> <<>>]
    /\ errs = <<>>
    /\ failed = {}
    /\ evts = [i \in Workers |-> <<>>]
    /\ reqs = {}
    /\ closes = 0
    /\ lateSend = FALSE
    /\ assembles = 0
    /\ joined = TRUE
    /\ result = "none"
    /\ failedAt = ""
    /\ how = ""
    /\ token = ""
    /\ hadMarker = FALSE
    /\ sizeOk = FALSE
    /\ ignored = FALSE
    /\ offset = NoHandle
    /\ stopped = FALSE

\* ------------------------------------------------------------- the sink
\* close(progressCh)
CloseSink ==
    /\ sink' = IF sink = "nil" THEN "nil" ELSE "closed"
    /\ closes' = IF sink = "nil" THEN closes ELSE closes + 1
    /\ joined' = IF sink = "nil" THEN joined
                 ELSE \A i \in Workers : wpc[i] \in {"off", "done"}

KeepSink == UNCHANGED <<sink, closes, joined>>

\* Fetch returns (res, err): res is "file", a handle positioned at off, or the
\* error is the one of stage at.
Return(res, at, off) == result' = res /\ failedAt' = at /\ offset' = off

\* parallelFetch returns (file, err) to Fetch, line 417: the deferred
\* close(progressCh) of lines 472-474 runs, Fetch has not returned yet.  at is
\* the stage of err ("" for nil), off the position of the handle.
Yield(at, off) ==
    /\ CloseSink
    /\ pc' = "fetched"
    /\ Return("none", at, off)

\* ------------------------------------------------------------- Fetch
\* A caller calls gf.Fetch(url, progressCh); lines 359-362.
Call ==
    /\ pc \in {"idle", "returned"}
    /\ calls < MaxCalls
    /\ calls' = calls + 1
    /\ \E url \in {"", "u"}, ch \in {"nil", "open"} :
        /\ sink' = ch
        /\ IF url = ""
           THEN pc' = "returned" /\ Return("err", "url", NoHandle)
           ELSE pc' = "head" /\ Return("none", "", NoHandle)
    /\ wpc' = [i \in Workers |-> "off"]
    /\ wmin' = [i \in Workers |-> 0]
    /\ wmax' = [i \in Workers |-> 0]
    /\ wcur' = [i \in Workers |-> 0]
    /\ wbody' = [i \in Workers |-> <<>>]
    /\ wpend' = [i \in Workers |-> 0]
    /\ wlocal' = [i \in Workers |-> <<>>]
    /\ errs' = <<>>
    /\ failed' = {}
    /\ evts' = [i \in Workers |-> <<>>]
    /\ reqs' = {}
    /\ closes' = 0
    /\ lateSend' = FALSE
    /\ assembles' = 0
    /\ joined' = TRUE
    /\ how' = ""
    /\ token' = ""
    /\ hadMarker' = FALSE
    /\ sizeOk' = FALSE
    /\ ignored' = FALSE
    /\ stopped' = FALSE
    /\ length' = 0
    /\ UNCHANGED <<fetcher, size, disk>>

\* CacheHit with the size comparison inverted.
CacheHitSizeDiffers(tok, len) ==
    /\ tok \in markers
    /\ dest.exists
    /\ Len(dest.data) # len

\* CacheHit trusting the marker alone, the local file not looked at.
CacheHitMarkerOnly(tok, len) == tok \in markers

\* Whether lines 397-401 find the download already done: the marker of the
\* server's token exists and the destination file has the reported size.
CacheHit(tok, len) ==
    /\ tok \in markers
    /\ dest.exists
    /\ Len(dest.data) = len

\* HeadFail with the cache directory and a marker made before the response is
\* looked at.
HeadFailLeavesMarker ==
    /\ pc = "head"
    /\ pc' = "returned"
    /\ Return("err", "head", NoHandle)
    /\ markers' = markers \cup {"a"}
    /\ UNCHANGED <<fetcher, size, calls, sink, length, chunksDir, chunks, dest,
                   workers, errs, failed, evts, reqs, closes, lateSend, assembles,
                   joined, how, stopped, token, hadMarker, sizeOk, ignored>>

\* The preflight request fails or is answered with a non-2xx status; lines 366-373.
HeadFail ==
    /\ pc = "head"
    /\ pc' = "returned"
    /\ Return("err", "head", NoHandle)
    /\ UNCHANGED <<fetcher, size, calls, sink, length, disk, workers, errs,
                   failed, evts, reqs, closes, lateSend, assembles, joined, how,
                   stopped, token,
                   hadMarker, sizeOk, ignored>>

\* The preflight response is 2xx; lines 375-414.  ranges: "Accept-Ranges: bytes"
\* is present; known: Content-Length is present; tok: the ETag header, trimmed
\* of its quotes; canCreate: os.Create(etagPath) succeeds; canOpen:
\* os.Open(destFilePath) of line 405 succeeds.
HeadOk ==
    /\ pc = "head"
    /\ \E ranges \in BOOLEAN, known \in BOOLEAN, tok \in Tokens,
          canCreate \in BOOLEAN, canOpen \in BOOLEAN :
        LET len == IF known THEN size ELSE -1 IN
        /\ length' = len
        /\ concurrency' = IF ranges THEN concurrency ELSE 1
        /\ token' = IF etag THEN tok ELSE ""
        /\ hadMarker' = (etag /\ tok # "" /\ tok \in markers)
        /\ sizeOk' = (etag /\ tok # "" /\ tok \in markers
                         /\ dest.exists /\ Len(dest.data) = len)
        /\ IF etag /\ tok # ""
           THEN IF tok \in markers
                THEN IF CacheHit(tok, len)
                     THEN /\ CloseSink
                          /\ pc' = "returned"
                          /\ IF canOpen THEN Return("file", "", 0)
                             ELSE Return("err", "open", NoHandle)
                          /\ how' = "cache"
                          /\ UNCHANGED markers
                     ELSE /\ KeepSink
                          /\ pc' = "pfetch"
                          /\ UNCHANGED <<result, failedAt, offset, how, markers>>
                ELSE IF canCreate
                     THEN /\ markers' = markers \cup {tok}
                          /\ KeepSink
                          /\ pc' = "pfetch"
                          /\ UNCHANGED <<result, failedAt, offset, how>>
                     ELSE /\ KeepSink
                          /\ pc' = "returned"
                          /\ Return("err", "marker", NoHandle)
                          /\ UNCHANGED <<how, markers>>
           ELSE /\ KeepSink
                /\ pc' = "pfetch"
                /\ UNCHANGED <<result, failedAt, offset, how, markers>>
    /\ UNCHANGED <<etag, algorithm, checksum, size, calls, chunksDir, chunks, dest, workers, errs,
                   failed, evts, reqs, lateSend, assembles, stopped, ignored>>

\* ------------------------------------------------------------- parallelFetch
Active == {i \in DOMAIN wpc : wpc[i] # "off"}

\* wg.Wait() returning as soon as one goroutine is done.
AnyDone == \E i \in DOMAIN wpc : wpc[i] = "done"

\* wg.Wait(), line 509: every goroutine started has called wg.Done()
AllDone == \A i \in DOMAIN wpc : wpc[i] \in {"off", "done"}

\* length / concurrency with concurrency = 0 panics (integer divide by zero);
\* the deferred close runs while the panic unwinds; lines 472-480.
DivideByZero ==
    /\ pc = "pfetch"
    /\ concurrency = 0
    /\ CloseSink
    /\ pc' = "panicked"
    /\ Return("panic", "", NoHandle)
    /\ how' = "download"
    /\ UNCHANGED <<fetcher, size, calls, length, disk, workers, errs,
                   failed, evts, reqs, lateSend, assembles, stopped, token,
                   hadMarker, sizeOk, ignored>>

\* os.MkdirAll(chunksDir) fails; lines 484-486.
MkdirFail ==
    /\ pc = "pfetch"
    /\ concurrency # 0
    /\ ~chunksDir
    /\ Yield("mkdir", NoHandle)
    /\ how' = "download"
    /\ UNCHANGED <<fetcher, size, calls, length, disk, workers, errs,
                   failed, evts, reqs, lateSend, assembles, stopped, token,
                   hadMarker, sizeOk, ignored>>

\* SpawnOver making the chunk directory only when there is more than one range.
SpawnOverNoDirForOne(W) ==
    /\ pc = "pfetch"
    /\ concurrency # 0
    /\ chunksDir' = IF concurrency = 1 THEN chunksDir ELSE TRUE
    /\ wpc' = [i \in W |-> IF i < concurrency THEN "start" ELSE "off"]
    /\ wmin' = [i \in W |->
                  IF i < concurrency THEN RangeMin(length, concurrency, i) ELSE 0]
    /\ wmax' = [i \in W |->
                  IF i < concurrency THEN RangeMax(length, concurrency, i) ELSE 0]
    /\ pc' = "wait"
    /\ how' = "download"
    /\ UNCHANGED <<fetcher, size, calls, sink, length, chunks, dest, markers,
                   wcur, wbody, wpend, wlocal, errs, failed, evts, reqs, closes,
                   lateSend, assembles, joined, result, failedAt, offset, stopped,
                   token, hadMarker, sizeOk, ignored>>

\* The chunk directory is made and one goroutine per range started; lines 478-508.
SpawnOver(W) ==
    /\ pc = "pfetch"
    /\ concurrency # 0
    /\ chunksDir' = TRUE
    /\ wpc' = [i \in W |-> IF i < concurrency THEN "start" ELSE "off"]
    /\ wmin' = [i \in W |->
                  IF i < concurrency THEN RangeMin(length, concurrency, i) ELSE 0]
    /\ wmax' = [i \in W |->
                  IF i < concurrency THEN RangeMax(length, concurrency, i) ELSE 0]
    /\ pc' = "wait"
    /\ how' = "download"
    /\ UNCHANGED <<fetcher, size, calls, sink, length, chunks, dest, markers,
                   wcur, wbody, wpend, wlocal, errs, failed, evts, reqs, closes,
                   lateSend, assembles, joined, result, failedAt, offset, stopped, token,
                   hadMarker, sizeOk, ignored>>

Spawn == SpawnOver(Workers)

\* ------------------------------------------------------------- Fetcher.fetch
\* lines 572-577: fi.Size() of the chunk file
FileSize(i) == Len(chunks[i].data)

\* line 578
currChunkSize(i) == wmax[i] - wmin[i]

\* line 581: the chunk data file was fully downloaded
FullyDownloaded(i, n) == n > 0 /\ n = currChunkSize(i)

\* min left as it was given, the bytes already in the chunk file asked for again.
ResumeMinNoShift(i) == wmin[i]

\* lines 591-594: min adjusted to resume where the file was left off
ResumeMin(i) == IF wcur[i] > 0 THEN wmin[i] + wcur[i] ELSE wmin[i]

\* lines 603-606: the Range header
RangeHeader(i) ==
    [chunk |-> i, first |-> ResumeMin(i),
     last |-> IF wmax[i] = -1 THEN 0 ELSE wmax[i] - 1,
     open |-> wmax[i] = -1]

\* lines 620-624: the body is read through io.LimitReader when max > 0
LimitBody(i, body) == IF wmax[i] > 0 THEN Take(body, currChunkSize(i)) ELSE body

\* The worker's fetch returned err: the goroutine reads errs for its append;
\* lines 503-505.
Fail(i) ==
    /\ failed' = failed \cup {i}
    /\ wlocal' = [wlocal EXCEPT ![i] = errs]
    /\ wpc' = [wpc EXCEPT ![i] = "append"]

\* The chunk file is opened (created if absent) and its size read; lines 559-589.
WStart(i) ==
    /\ wpc[i] = "start"
    /\ chunks' = [chunks EXCEPT ![i] = File(chunks[i].data)]
    /\ wcur' = [wcur EXCEPT ![i] = FileSize(i)]
    /\ LET n == FileSize(i) IN
        IF FullyDownloaded(i, n)
        THEN wpc' = [wpc EXCEPT ![i] = "done"] /\ UNCHANGED wpend
        ELSE IF sink # "nil"
             THEN /\ wpc' = [wpc EXCEPT ![i] = "sendInit"]
                  /\ wpend' = [wpend EXCEPT ![i] = n]
             ELSE wpc' = [wpc EXCEPT ![i] = "request"] /\ UNCHANGED wpend
    /\ UNCHANGED <<fetcher, size, pc, calls, sink, length, chunksDir, dest,
                   markers, wmin, wmax, wbody, wlocal, errs, history, stopped>>

\* os.OpenFile(destFile, O_RDWR|O_CREATE|O_APPEND) fails, lines 566-569: no
\* chunk file is made; or the file is opened (made when absent) and file.Stat
\* fails, lines 572-575.  fetch returns the error before any report and before
\* the request.  (http.NewRequest, lines 559-562, fails on a URL that cannot
\* be parsed only, and http.Head has accepted this one.)
WStartErr(i) ==
    /\ wpc[i] = "start"
    /\ \E opened \in BOOLEAN :
          chunks' = IF opened THEN [chunks EXCEPT ![i] = File(chunks[i].data)]
                    ELSE chunks
    /\ Fail(i)
    /\ UNCHANGED <<fetcher, size, pc, calls, sink, length, chunksDir, dest,
                   markers, wmin, wmax, wcur, wbody, wpend, errs, evts, reqs,
                   closes, lateSend, assembles, joined, result, failedAt,
                   offset, how, stopped, token, hadMarker, sizeOk, ignored>>

\* ProgressReport with the Total field left at its zero value.
ReportNoTotal(total, n) == [Total |-> 0, WrittenBytes |-> n]

\* The report sent: ProgressReport{Total: length} of line 478 with WrittenBytes
\* set at line 587 or 643.
Report(total, n) == [Total |-> total, WrittenBytes |-> n]

\* progressCh <- report completes: the observer receives it; lines 588 and 644.
\* A send on a closed channel panics.
WSend(i) ==
    /\ wpc[i] \in {"sendInit", "sendW", "sendWErr"}
    /\ \/ /\ sink = "open"
          /\ ~stopped
          /\ evts' = [evts EXCEPT ![i] = Append(@, Report(length, wpend[i]))]
          /\ wpc' = [wpc EXCEPT ![i] = CASE wpc[i] = "sendInit" -> "request"
                                          [] wpc[i] = "sendW" -> "copy"
                                          [] OTHER -> "failing"]
          /\ UNCHANGED <<lateSend, pc, result, failedAt, offset>>
       \/ /\ sink = "closed"
          /\ lateSend' = TRUE
          /\ pc' = "panicked"
          /\ Return("panic", "", NoHandle)
          /\ wpc' = [wpc EXCEPT ![i] = "done"]
          /\ UNCHANGED evts
    /\ UNCHANGED <<fetcher, size, calls, sink, length, disk, wmin, wmax, wcur, wbody,
                   wpend, wlocal, errs, failed, reqs, closes, assembles, joined,
                   how, stopped, token,
                   hadMarker, sizeOk, ignored>>

\* gf.httpClient.Do(req) and the status check; lines 603-624.  resp: what the
\* server does with the request.
WRequest(i) ==
    /\ wpc[i] = "request"
    /\ reqs' = reqs \cup {RangeHeader(i)}
    /\ \E resp \in {"err", "non2xx", "honour", "ignore"} :
        LET h == RangeHeader(i)
            r == CASE resp = "honour" -> ServeRange(size, h.first, h.last, h.open)
                   [] resp = "ignore" -> ServeWhole(size)
                   [] OTHER -> [ok |-> FALSE, body |-> <<>>]
        IN  /\ ignored' = (ignored \/ (resp = "ignore" /\ ~Honoured(size, h, r)))
            /\ IF r.ok
               THEN /\ wbody' = [wbody EXCEPT ![i] = LimitBody(i, r.body)]
                    /\ wpc' = [wpc EXCEPT ![i] = "copy"]
                    /\ UNCHANGED <<failed, wlocal>>
               ELSE Fail(i) /\ UNCHANGED wbody
    /\ UNCHANGED <<fetcher, size, pc, calls, sink, length, disk, wmin, wmax, wcur,
                   wpend, errs, evts, closes, lateSend, assembles, joined,
                   result, failedAt, offset, how, stopped, token, hadMarker, sizeOk>>

\* fetchWriter.Write: k bytes read from the body are appended to the chunk file,
\* then reported; lines 639-648.
WWrite(i) ==
    /\ wpc[i] = "copy"
    /\ wbody[i] # <<>>
    /\ \E k \in 1..Min(MaxWrite, Len(wbody[i])) :
        /\ chunks' = [chunks EXCEPT ![i] = File(@.data \o Take(wbody[i], k))]
        /\ wbody' = [wbody EXCEPT ![i] = Drop(@, k)]
        /\ IF sink # "nil"
           THEN /\ wpc' = [wpc EXCEPT ![i] = "sendW"]
                /\ wpend' = [wpend EXCEPT ![i] = k]
           ELSE UNCHANGED <<wpc, wpend>>
    /\ UNCHANGED <<fetcher, size, pc, calls, sink, length, chunksDir, dest,
                   markers, wmin, wmax, wcur, wlocal, errs, history, stopped>>

\* fetchWriter.Write when fw.Writer.Write(b) fails: k bytes of b, fewer than
\* all, are in the chunk file (none when k = 0); they are reported all the
\* same, the channel is sent to before the error is returned; lines 639-648.
WWriteErr(i) ==
    /\ wpc[i] = "copy"
    /\ wbody[i] # <<>>
    /\ \E k \in 0..(Min(MaxWrite, Len(wbody[i])) - 1) :
        /\ chunks' = [chunks EXCEPT ![i] = File(@.data \o Take(wbody[i], k))]
        /\ IF sink # "nil"
           THEN /\ wpc' = [wpc EXCEPT ![i] = "sendWErr"]
                /\ wpend' = [wpend EXCEPT ![i] = k]
           ELSE /\ wpc' = [wpc EXCEPT ![i] = "failing"]
                /\ UNCHANGED wpend
    /\ UNCHANGED <<fetcher, size, pc, calls, sink, length, chunksDir, dest,
                   markers, wmin, wmax, wcur, wbody, wlocal, errs, history,
                   stopped>>

\* io.Copy returns the error of the Write, fetch returns it; lines 625-626.
WWriteFailed(i) ==
    /\ wpc[i] = "failing"
    /\ Fail(i)
    /\ UNCHANGED <<fetcher, size, pc, calls, sink, length, disk, wmin, wmax, wcur,
                   wbody, wpend, errs, evts, reqs, closes, lateSend, assembles,
                   joined, result, failedAt, offset, how, stopped, token, hadMarker,
                   sizeOk, ignored>>

\* io.Copy reaches the end of the body: fetch returns nil; lines 625-626.
WEOF(i) ==
    /\ wpc[i] = "copy"
    /\ wbody[i] = <<>>
    /\ wpc' = [wpc EXCEPT ![i] = "done"]
    /\ UNCHANGED <<fetcher, size, pc, calls, sink, length, disk, wmin, wmax, wcur,
                   wbody, wpend, wlocal, errs, history, stopped>>

\* The connection breaks before the body is read whole: io.Copy returns the
\* read error; lines 625-626.
WReadErr(i) ==
    /\ wpc[i] = "copy"
    /\ wbody[i] # <<>>
    /\ Fail(i)
    /\ UNCHANGED <<fetcher, size, pc, calls, sink, length, disk, wmin, wmax, wcur,
                   wbody, wpend, errs, evts, reqs, closes, lateSend, assembles,
                   joined, result, failedAt, offset, how, stopped, token, hadMarker,
                   sizeOk, ignored>>

\* WAppend with wg.Done() skipped on the error path: the goroutine exits, the
\* wait group is never released.
WAppendNoDone(i) ==
    /\ wpc[i] = "append"
    /\ errs' = Append(wlocal[i], i)
    /\ wpc' = [wpc EXCEPT ![i] = "exited"]
    /\ UNCHANGED <<fetcher, size, pc, calls, sink, length, disk, wmin, wmax, wcur,
                   wbody, wpend, wlocal, history, stopped>>

\* errs = append(errs, err) stores the slice built from the value read before,
\* then wg.Done(); lines 500-506.  The load and the store are not one step:
\* errs is shared by the goroutines without synchronisation.
WAppend(i) ==
    /\ wpc[i] = "append"
    /\ errs' = Append(wlocal[i], i)
    /\ wpc' = [wpc EXCEPT ![i] = "done"]
    /\ UNCHANGED <<fetcher, size, pc, calls, sink, length, disk, wmin, wmax, wcur,
                   wbody, wpend, wlocal, history, stopped>>

\* ------------------------------------------------------------- joining
\* WaitErr that removes the chunk directory before it returns the error.
WaitErrCleansUp ==
    /\ pc = "wait"
    /\ AllDone
    /\ Len(errs) > 0
    /\ Yield("ranges", NoHandle)
    /\ chunksDir' = FALSE
    /\ chunks' = [i \in DOMAIN chunks |-> NoFile]
    /\ UNCHANGED <<fetcher, size, calls, length, dest, markers, workers, errs,
                   failed, evts, reqs, lateSend, assembles, how, stopped, token,
                   hadMarker, sizeOk, ignored>>

\* wg.Wait() returns and a range failed: the combined error; lines 509-513.
WaitErr ==
    /\ pc = "wait"
    /\ AllDone
    /\ Len(errs) > 0
    /\ Yield("ranges", NoHandle)
    /\ UNCHANGED <<fetcher, size, calls, length, disk, workers, errs,
                   failed, evts, reqs, lateSend, assembles, how, stopped, token,
                   hadMarker, sizeOk, ignored>>

\* WaitOk without the test of errs.
WaitOkAnyway ==
    /\ pc = "wait"
    /\ AllDone
    /\ pc' = "assemble"
    /\ UNCHANGED <<fetcher, size, calls, sink, length, disk, workers, errs,
                   history, stopped>>

\* wg.Wait() returns and errs is empty: on to assembleChunks; lines 509-515.
WaitOk ==
    /\ pc = "wait"
    /\ AllDone
    /\ Len(errs) = 0
    /\ pc' = "assemble"
    /\ UNCHANGED <<fetcher, size, calls, sink, length, disk, workers, errs,
                   history, stopped>>

\* ------------------------------------------------------------- assembleChunks
\* The chunk files i..n-1 copied in index order, up to the first missing one;
\* lines 539-550.
RECURSIVE CopyChunks(_, _)
CopyChunks(i, n) ==
    IF i >= n \/ ~chunks[i].exists THEN <<>>
    ELSE chunks[i].data \o CopyChunks(i + 1, n)

\* Every chunk file 0..n-1 can be opened; line 540.
ChunksPresent(n) == \A i \in DOMAIN chunks : i < n => chunks[i].exists

\* ------------------------------------------------------------- verify
\* The hashing algorithms of verify, lines 436-447.
Supported == {"md5", "sha1", "sha256", "sha512"}

\* fmt.Sprintf("%x", hasher.Sum(nil)) of a file content, lines 455-460.  The
\* hash is ideal: the digest tells the algorithm and the content apart from
\* every other.
Digest(alg, data) == [alg |-> alg, of |-> data]

\* verify that lets every file pass.
verifyAlwaysOk(data, alg, sum, io) == ""

\* verify(f, algorithm, checksum), lines 434-467: "" for nil, else which error.
\* io: what reading the file does: "ok", or f.Seek fails ("vseek", lines
\* 450-453), or io.Copy(hasher, f) fails ("vread", lines 455-458).
verify(data, alg, sum, io) ==
    IF alg \notin Supported THEN "algorithm"
    ELSE IF io # "ok" THEN io
    ELSE IF Digest(alg, data) # sum THEN "checksum"
    ELSE ""

\* os.Create(destFile) fails; lines 534-537 and 515-518.
AssembleCreateFail ==
    /\ pc = "assemble"
    /\ assembles' = assembles + 1
    /\ Yield("create", NoHandle)
    /\ UNCHANGED <<fetcher, size, calls, length, disk, workers, errs,
                   failed, evts, reqs, lateSend, how, stopped, token,
                   hadMarker, sizeOk, ignored>>

\* io.Copy(file, chunkFile) fails while a chunk file is copied (the loop of
\* line 539 has opened one at least): the destination holds the k bytes copied
\* before, the chunk directory stays; lines 547-549 and 515-518.
AssembleCopyFail ==
    /\ pc = "assemble"
    /\ concurrency >= 1
    /\ chunks[0].exists
    /\ assembles' = assembles + 1
    /\ \E k \in 0..Len(CopyChunks(0, concurrency)) :
          dest' = File(Take(CopyChunks(0, concurrency), k))
    /\ Yield("copy", NoHandle)
    /\ UNCHANGED <<fetcher, size, calls, length, chunksDir, chunks, markers,
                   workers, errs, failed, evts, reqs, lateSend, how, stopped,
                   token, hadMarker, sizeOk, ignored>>

\* os.RemoveAll(chunksDir), line 520.  What it returns is dropped: the chunk
\* files of `kept` could not be removed, and the directory stays when `dir` (it
\* must when a file of it stays).
RemoveAll ==
    \E kept \in SUBSET {i \in DOMAIN chunks : chunks[i].exists}, dir \in BOOLEAN :
        /\ kept # {} => dir
        /\ chunks' = [i \in DOMAIN chunks |-> IF i \in kept THEN chunks[i] ELSE NoFile]
        /\ chunksDir' = dir

\* Every chunk file was copied and os.RemoveAll called on the chunk directory,
\* then file.Seek(0, 0) fails; lines 515-527.
AssembleSeekFail ==
    /\ pc = "assemble"
    /\ ChunksPresent(concurrency)
    /\ assembles' = assembles + 1
    /\ dest' = File(CopyChunks(0, concurrency))
    /\ RemoveAll
    /\ Yield("seek", NoHandle)
    /\ UNCHANGED <<fetcher, size, calls, length, markers,
                   workers, errs, failed, evts, reqs, lateSend, how, stopped,
                   token, hadMarker, sizeOk, ignored>>

\* The destination file is created (truncated) and the chunk files are copied
\* into it, up to the first one that cannot be opened; when all were copied
\* os.RemoveAll is called on the chunk directory and the file sought to its
\* start; lines 515-529 and 533-552.
Assemble ==
    /\ pc = "assemble"
    /\ assembles' = assembles + 1
    /\ dest' = File(CopyChunks(0, concurrency))
    /\ IF ChunksPresent(concurrency)
       THEN /\ RemoveAll
            /\ Yield("", SeekStart(Len(CopyChunks(0, concurrency))))
       ELSE /\ UNCHANGED <<chunks, chunksDir>>
            /\ Yield("chunk", NoHandle)
    /\ UNCHANGED <<fetcher, size, calls, length, markers, workers, errs,
                   failed, evts, reqs, lateSend, how, stopped, token,
                   hadMarker, sizeOk, ignored>>

\* Back in Fetch, lines 417-431: the error of parallelFetch is returned as it
\* is; else the file is verified when an algorithm is configured, sought to
\* its start again and returned.  The result of that f.Seek (line 428) is not
\* looked at: when it fails the file is returned where verify has left it, at
\* its end.
FetchReturn ==
    /\ pc = "fetched"
    /\ pc' = "returned"
    /\ IF failedAt # ""
       THEN Return("err", failedAt, NoHandle)
       ELSE IF algorithm # ""
            THEN \E io \in {"ok", "vseek", "vread"} :
                    LET err == verify(dest.data, algorithm, checksum, io)
                    IN  IF err = ""
                        THEN \E sought \in BOOLEAN :
                                Return("file", "",
                                       IF sought THEN SeekStart(Len(dest.data))
                                       ELSE Len(dest.data))
                        ELSE Return("err", err, NoHandle)
            ELSE Return("file", "", offset)
    /\ UNCHANGED <<fetcher, size, calls, sink, length, disk, workers, errs,
                   failed, evts, reqs, closes, lateSend, assembles, joined, how,
                   stopped, token, hadMarker, sizeOk, ignored>>

\* ------------------------------------------------------------- the observer
\* The consumer of the progress channel stops receiving.
ObserverStop ==
    /\ sink = "open"
    /\ ~stopped
    /\ pc = "wait"
    /\ stopped' = TRUE
    /\ UNCHANGED <<fetcher, size, pc, calls, sink, length, disk, workers, errs,
                   history>>

\* ------------------------------------------------------------- specification
WorkerStep(i) ==
    \/ WStart(i)
    \/ WStartErr(i)
    \/ WSend(i)
    \/ WRequest(i)
    \/ WWrite(i)
    \/ WWriteErr(i)
    \/ WWriteFailed(i)
    \/ WEOF(i)
    \/ WReadErr(i)
    \/ WAppend(i)

FetchStep ==
    \/ HeadFail
    \/ HeadOk
    \/ DivideByZero
    \/ MkdirFail
    \/ Spawn
    \/ WaitErr
    \/ WaitOk
    \/ AssembleCreateFail
    \/ AssembleCopyFail
    \/ AssembleSeekFail
    \/ Assemble
    \/ FetchReturn

Next ==
    \/ Call
    \/ FetchStep
    \/ \E i \in Workers : WorkerStep(i)
    \/ ObserverStop

Spec == Init /\ [][Next]_vars

\* ------------------------------------------------------------- range planning
\* parallelFetch entered by a first call, without a sink, for a resource of a
\* known length 0..PlanLen and a Fetcher of concurrency 1..PlanConc.
PlanWorkers == 0..(PlanConc - 1)

PlanInit ==
    /\ concurrency \in 1..PlanConc
    /\ etag = FALSE
    /\ algorithm = ""
    /\ checksum = ""
    /\ size \in 0..PlanLen
    /\ pc = "pfetch"
    /\ calls = 1
    /\ sink = "nil"
    /\ length = size
    /\ chunksDir = FALSE
    /\ chunks = [i \in PlanWorkers |-> NoFile]
    /\ dest = NoFile
    /\ markers = {}
    /\ wpc = [i \in PlanWorkers |-> "off"]
    /\ wmin = [i \in PlanWorkers |-> 0]
    /\ wmax = [i \in PlanWorkers |-> 0]
    /\ wcur = [i \in PlanWorkers |-> 0]
    /\ wbody = [i \in PlanWorkers |-> <<>>]
    /\ wpend = [i \in PlanWorkers |-> 0]
    /\ wlocal = [i \in PlanWorkers |-> <<>>]
    /\ errs = <<>>
    /\ failed = {}
    /\ evts = [i \in PlanWorkers |-> <<>>]
    /\ reqs = {}
    /\ closes = 0
    /\ lateSend = FALSE
    /\ assembles = 0
    /\ joined = TRUE
    /\ result = "none"
    /\ failedAt = ""
    /\ how = ""
    /\ token = ""
    /\ hadMarker = FALSE
    /\ sizeOk = FALSE
    /\ ignored = FALSE
    /\ offset = NoHandle
    /\ stopped = FALSE

PlanSpawn == SpawnOver(PlanWorkers)

PlanNext ==
    \/ PlanSpawn
    \/ MkdirFail
    \/ FetchReturn

PlanSpec == PlanInit /\ [][PlanNext]_vars

\* ------------------------------------------------------------- verification
\* New(WithChecksum(alg, value), opts...), lines 324-330 and 343-355, on an
\* empty disk: alg is a supported algorithm or not, value is the digest of the
\* resource or the digest of something else.
Algorithms == {"sha256", "crc32"}

VerifyInit ==
    /\ concurrency \in ConcValues
    /\ etag \in BOOLEAN
    /\ size \in 0..MaxLen
    /\ algorithm \in Algorithms
    /\ checksum \in {Digest(algorithm, Bytes(0, size - 1)),
                      Digest(algorithm, Bytes(0, size))}
    /\ algorithm \notin Supported => checksum = Digest(algorithm, Bytes(0, size - 1))
    /\ pc = "idle"
    /\ calls = 0
    /\ sink = "nil"
    /\ length = 0
    /\ chunksDir = FALSE
    /\ chunks = [i \in Workers |-> NoFile]
    /\ dest = NoFile
    /\ markers = {}
    /\ wpc = [i \in Workers |-> "off"]
    /\ wmin = [i \in Workers |-> 0]
    /\ wmax = [i \in Workers |-> 0]
    /\ wcur = [i \in Workers |-> 0]
    /\ wbody = [i \in Workers |-> <<>>]
    /\ wpend = [i \in Workers |-> 0]
    /\ wlocal = [i \in Workers |-> <<>>]
    /\ errs = <<>>
    /\ failed = {}
    /\ evts = [i \in Workers |-> <<>>]
    /\ reqs = {}
    /\ closes = 0
    /\ lateSend = FALSE
    /\ assembles = 0
    /\ joined = TRUE
    /\ result = "none"
    /\ failedAt = ""
    /\ how = ""
    /\ token = ""
    /\ hadMarker = FALSE
    /\ sizeOk = FALSE
    /\ ignored = FALSE
    /\ offset = NoHandle
    /\ stopped = FALSE

VerifySpec == VerifyInit /\ [][Next]_vars

\* ------------------------------------------------------------- resuming
\* A Fetch of a resource of known length over the chunk files an interrupted
\* Fetch of the same URL left in <dest>.chunks: that Fetch ran with concurrency
\* c0 against a range-honouring server, so chunk file i, when it was created,
\* holds the first k bytes of its range [RangeMin, RangeMax) of lines 489-496.
\* The Fetch now runs with its own concurrency and has passed the preflight
\* request (lines 359-417).
ResumeWorkers == 0..(ResumeConc - 1)

\* The chunk file fetch leaves for range i of c0 after k bytes were copied.
LeftChunk(len, c0, i, k) ==
    IF i < c0 /\ k <= RangeMax(len, c0, i) - RangeMin(len, c0, i)
    THEN File(Take(Bytes(RangeMin(len, c0, i), RangeMax(len, c0, i) - 1), k))
    ELSE NoFile

ResumeInit ==
    /\ concurrency \in 1..ResumeConc
    /\ etag = FALSE
    /\ algorithm = ""
    /\ checksum = ""
    /\ size \in 1..ResumeLen
    /\ pc = "pfetch"
    /\ calls = 1
    /\ sink = "nil"
    /\ length = size
    /\ chunksDir = TRUE
    /\ \E c0 \in 1..ResumeConc, k \in [ResumeWorkers -> 0..(ResumeLen + 1)] :
          chunks = [i \in ResumeWorkers |-> LeftChunk(size, c0, i, k[i])]
    /\ dest = NoFile
    /\ markers = {}
    /\ wpc = [i \in ResumeWorkers |-> "off"]
    /\ wmin = [i \in ResumeWorkers |-> 0]
    /\ wmax = [i \in ResumeWorkers |-> 0]
    /\ wcur = [i \in ResumeWorkers |-> 0]
    /\ wbody = [i \in ResumeWorkers |-> <<>>]
    /\ wpend = [i \in ResumeWorkers |-> 0]
    /\ wlocal = [i \in ResumeWorkers |-> <<>>]
    /\ errs = <<>>
    /\ failed = {}
    /\ evts = [i \in ResumeWorkers |-> <<>>]
    /\ reqs = {}
    /\ closes = 0
    /\ lateSend = FALSE
    /\ assembles = 0
    /\ joined = TRUE
    /\ result = "none"
    /\ failedAt = ""
    /\ how = ""
    /\ token = ""
    /\ hadMarker = FALSE
    /\ sizeOk = FALSE
    /\ ignored = FALSE
    /\ offset = NoHandle
    /\ stopped = FALSE

ResumeSpawn == SpawnOver(ResumeWorkers)

ResumeNext ==
    \/ ResumeSpawn
    \/ \E i \in ResumeWorkers :
          \/ WStart(i)
          \/ WStartErr(i)
          \/ WRequest(i)
          \/ WWrite(i)
          \/ WWriteErr(i)
          \/ WWriteFailed(i)
          \/ WEOF(i)
          \/ WReadErr(i)
          \/ WAppend(i)
    \/ WaitErr
    \/ WaitOk
    \/ AssembleCreateFail
    \/ AssembleCopyFail
    \/ AssembleSeekFail
    \/ Assemble
    \/ FetchReturn

ResumeSpec == ResumeInit /\ [][ResumeNext]_vars

\* ------------------------------------------------------------- Fetch(Config)
\* The earlier revision of the package, lines 1-245: Fetch(config Config) with
\* its own parallelFetch, assembleChunks, fetch and fetchWriter.  concurrency
\* is config.Concurrency, sink is config.Progress.  There is no Accept-Ranges,
\* ETag or checksum handling.  What differs from the Fetcher is modelled here;
\* the steps that are the same in both revisions are the actions above.

\* setDefaults, lines 42-50: a Concurrency of 0 becomes 1.
setDefaults(c) == IF c = 0 THEN 1 ELSE c

\* A Config is built with any Concurrency, on an empty disk.
ConfigInit == Init /\ etag = FALSE

\* A caller calls Fetch(config); lines 54-59.
ConfigCall ==
    /\ pc \in {"idle", "returned"}
    /\ calls < MaxCalls
    /\ calls' = calls + 1
    /\ concurrency' = setDefaults(concurrency)
    /\ \E url \in {"", "u"}, ch \in {"nil", "open"} :
        /\ sink' = ch
        /\ IF url = ""
           THEN pc' = "returned" /\ Return("err", "url", NoHandle)
           ELSE pc' = "head" /\ Return("none", "", NoHandle)
    /\ wpc' = [i \in Workers |-> "off"]
    /\ wmin' = [i \in Workers |-> 0]
    /\ wmax' = [i \in Workers |-> 0]
    /\ wcur' = [i \in Workers |-> 0]
    /\ wbody' = [i \in Workers |-> <<>>]
    /\ wpend' = [i \in Workers |-> 0]
    /\ wlocal' = [i \in Workers |-> <<>>]
    /\ errs' = <<>>
    /\ failed' = {}
    /\ evts' = [i \in Workers |-> <<>>]
    /\ reqs' = {}
    /\ closes' = 0
    /\ lateSend' = FALSE
    /\ assembles' = 0
    /\ joined' = TRUE
    /\ how' = ""
    /\ token' = ""
    /\ hadMarker' = FALSE
    /\ sizeOk' = FALSE
    /\ ignored' = FALSE
    /\ stopped' = FALSE
    /\ length' = 0
    /\ UNCHANGED <<etag, algorithm, checksum, size, disk>>

\* The preflight response is 2xx: on to parallelFetch with res.ContentLength;
\* lines 61-73.  known: Content-Length is present.
ConfigHeadOk ==
    /\ pc = "head"
    /\ \E known \in BOOLEAN : length' = IF known THEN size ELSE -1
    /\ pc' = "pfetch"
    /\ UNCHANGED <<fetcher, size, calls, sink, disk, workers, errs, history,
                   stopped>>

\* fetch, lines 161-195: the chunk file is opened (created if absent) and its
\* size read; a file of exactly max - min bytes, an empty one for an empty
\* range included, is complete.  The bytes on disk are not reported.
ConfigWStart(i) ==
    /\ wpc[i] = "start"
    /\ chunks' = [chunks EXCEPT ![i] = File(chunks[i].data)]
    /\ wcur' = [wcur EXCEPT ![i] = FileSize(i)]
    /\ wpc' = [wpc EXCEPT ![i] =
                  IF FileSize(i) = currChunkSize(i) THEN "done" ELSE "request"]
    /\ UNCHANGED <<fetcher, size, pc, calls, sink, length, chunksDir, dest,
                   markers, wmin, wmax, wbody, wpend, wlocal, errs, history,
                   stopped>>

\* client.Do(req) and the status check, lines 204-222: the whole body is
\* copied, there is no io.LimitReader.
ConfigWRequest(i) ==
    /\ wpc[i] = "request"
    /\ reqs' = reqs \cup {RangeHeader(i)}
    /\ \E resp \in {"err", "non2xx", "honour", "ignore"} :
        LET h == RangeHeader(i)
            r == CASE resp = "honour" -> ServeRange(size, h.first, h.last, h.open)
                   [] resp = "ignore" -> ServeWhole(size)
                   [] OTHER -> [ok |-> FALSE, body |-> <<>>]
        IN  /\ ignored' = (ignored \/ (resp = "ignore" /\ ~Honoured(size, h, r)))
            /\ IF r.ok
               THEN /\ wbody' = [wbody EXCEPT ![i] = r.body]
                    /\ wpc' = [wpc EXCEPT ![i] = "copy"]
                    /\ UNCHANGED <<failed, wlocal>>
               ELSE Fail(i) /\ UNCHANGED wbody
    /\ UNCHANGED <<fetcher, size, pc, calls, sink, length, disk, wmin, wmax, wcur,
                   wpend, errs, evts, closes, lateSend, assembles, joined,
                   result, failedAt, offset, how, stopped, token, hadMarker, sizeOk>>

ConfigWorkerStep(i) ==
    \/ ConfigWStart(i)
    \/ WStartErr(i)
    \/ WSend(i)
    \/ ConfigWRequest(i)
    \/ WWrite(i)
    \/ WWriteErr(i)
    \/ WWriteFailed(i)
    \/ WEOF(i)
    \/ WReadErr(i)
    \/ WAppend(i)

ConfigNext ==
    \/ ConfigCall
    \/ HeadFail
    \/ ConfigHeadOk
    \/ MkdirFail
    \/ Spawn
    \/ WaitErr
    \/ WaitOk
    \/ AssembleCreateFail
    \/ AssembleCopyFail
    \/ AssembleSeekFail
    \/ Assemble
    \/ FetchReturn
    \/ \E i \in Workers : ConfigWorkerStep(i)
    \/ ObserverStop

ConfigSpec == ConfigInit /\ [][ConfigNext]_vars

\* ------------------------------------------------------------- properties
Returned == pc \in {"returned", "panicked"}

Terminated(i) == wpc[i] \in {"off", "done"}

Sending(i) == wpc[i] \in {"sendInit", "sendW", "sendWErr"}

\* A step of the transfer itself: of Fetch or of one of its workers.
ProgramStep == FetchStep \/ \E i \in Workers : WorkerStep(i)

Written(i) == [k \in 1..Len(evts[i]) |-> evts[i][k].WrittenBytes]

\* C1: in a Fetch call that reaches parallelFetch with a non-nil sink, the sink
\* is closed at most once, it is closed only when every chunk worker has
\* terminated, no worker sends on it after the close, and it is closed when the
\* call is over.
C1_SinkClosedOnceAfterJoin ==
    (how = "download" /\ sink # "nil") =>
        /\ closes <= 1
        /\ ~lateSend
        /\ sink = "closed" => (closes = 1 /\ joined /\ \A i \in Workers : Terminated(i))
        /\ Returned => sink = "closed"

\* Two workers ran, one of them failed, reports were received and the sink is closed.
C1_Witness ==
    /\ how = "download"
    /\ sink = "closed"
    /\ Active = {0, 1}
    /\ failed # {}
    /\ \E i \in Workers : evts[i] # <<>>

\* C2: whenever Fetch has returned from a call made with a non-nil sink, the
\* sink is closed, on the failure paths too.
C2_SinkClosedOnEveryReturn ==
    (pc = "returned" /\ sink # "nil") => sink = "closed"

\* C3 as claimed: the transfer never waits for the observer; until Fetch
\* returns, Fetch or one of its workers can always take a step.
C3_TransferNeverBlocks ==
    pc \in {"head", "pfetch", "wait", "assemble", "fetched"} => ENABLED ProgramStep

\* C3 as amended: progress sends are synchronous.  The transfer can be blocked
\* by the observer and by nothing else: when neither Fetch nor a worker can take
\* a step, the observer has stopped receiving and a worker is in a send.
C3_BlockedOnlyByObserver ==
    (pc \in {"head", "pfetch", "wait", "assemble", "fetched"}
        /\ ~ENABLED ProgramStep) =>
        /\ stopped
        /\ \E i \in Workers : Sending(i)
        /\ \A i \in Workers : Sending(i) \/ Terminated(i)

\* A worker has written bytes to its chunk file and is blocked in the send of
\* their report, the observer having stopped; nothing in the transfer can move.
C3_Witness ==
    /\ stopped
    /\ pc = "wait"
    /\ \E i \in Workers : wpc[i] = "sendW" /\ chunks[i].data # <<>>
    /\ ~ENABLED ProgramStep

\* C4: for a length >= 0 and a concurrency >= 1 the ranges the workers are
\* started with partition [0, length): range 0 starts at 0, each range starts
\* where the previous one ends, the last one ends at length, the widths sum to
\* length and the last width is length/concurrency + length mod concurrency.
C4_RangesPartition ==
    (pc = "wait" /\ length >= 0 /\ concurrency >= 1) =>
        /\ {i \in DOMAIN wpc : wpc[i] # "off"} = 0..(concurrency - 1)
        /\ wmin[0] = 0
        /\ \A i \in 0..(concurrency - 2) : wmin[i + 1] = wmax[i]
        /\ \A i \in 0..(concurrency - 1) : wmin[i] <= wmax[i]
        /\ wmax[concurrency - 1] = length
        /\ SumSeq([k \in 1..concurrency |-> wmax[k - 1] - wmin[k - 1]]) = length
        /\ wmax[concurrency - 1] - wmin[concurrency - 1]
             = (length \div concurrency) + (length % concurrency)

\* Three workers were started for a length that three does not divide: the
\* last range takes the remainder.
C4_Witness ==
    /\ pc = "wait"
    /\ concurrency = 3
    /\ length = 11
    /\ wmin[2] = 6
    /\ wmax[2] = 11
    /\ wmax[2] - wmin[2] = (length \div 3) + 2

\* C5: assembleChunks runs only when every worker has terminated and none has
\* failed; when a range has failed Fetch returns an error and assembleChunks has
\* not run, so the destination file is neither created nor written; and while
\* Fetch waits, a worker that has not terminated can take its next step,
\* whatever its siblings did (unless the observer no longer receives its report).
C5_AssembleOnlyAfterAllSucceeded ==
    /\ (pc = "assemble" \/ assembles > 0) =>
        /\ failed = {}
        /\ \A i \in Workers : Terminated(i)
    /\ (Returned /\ failed # {}) => (result = "err" /\ assembles = 0)
    /\ \A i \in Workers :
        (pc = "wait" /\ ~Terminated(i) /\ ~(Sending(i) /\ stopped))
            => ENABLED WorkerStep(i)

\* Range 0 failed, its sibling went on to download its own range, and Fetch
\* returned the error without assembling.
C5_Witness ==
    /\ pc = "returned"
    /\ failed = {0}
    /\ wpc[1] = "done"
    /\ chunks[1].data # <<>>
    /\ result = "err"
    /\ assembles = 0
    /\ ~dest.exists

\* C6: when Fetch returns after k >= 1 workers failed, errs holds the error of
\* every one of them.
C6_EveryRangeErrorAggregated ==
    (pc = "returned" /\ failed # {}) =>
        {errs[k] : k \in 1..Len(errs)} = failed

\* C7: no GET request is issued for a range whose chunk file held exactly
\* max - min bytes when the worker opened it, zero-width ranges included.
C7_CompleteChunkNoRequest ==
    \A r \in reqs : wcur[r.chunk] # currChunkSize(r.chunk)

\* C8: a worker that found its chunk file already holding n > 0 bytes, n the
\* width of its range, has reported exactly one progress event, of n bytes.
C8_CompleteChunkReportedOnce ==
    \A i \in Workers :
        (sink # "nil" /\ wpc[i] = "done" /\ wcur[i] > 0
           /\ wcur[i] = currChunkSize(i))
            => Written(i) = <<wcur[i]>>

\* The skip condition as the call observed it: tracking is on, the server sent
\* a token, the marker of that token existed and the destination file had the
\* reported size.
SkipCondition == etag /\ token # "" /\ hadMarker /\ sizeOk

\* What C9 says of a Fetch that found the skip condition, but for what it
\* returns: it has returned without calling parallelFetch, no progress event
\* was received, no GET issued, the sink is closed, and the destination file
\* is there with the reported size.
SkippedDownload ==
    /\ pc = "returned"
    /\ how = "cache"
    /\ \A i \in Workers : evts[i] = <<>> /\ wpc[i] = "off"
    /\ reqs = {}
    /\ sink # "nil" => (sink = "closed" /\ closes = 1)
    /\ dest.exists /\ Len(dest.data) = length

\* C9 as claimed: with tracking on, a Fetch that finds the marker of the
\* server's token and a destination file of the reported size returns a handle
\* to that file, at offset 0, having received no progress event, issued no GET
\* and closed the sink.
C9_CacheHitSkipsDownload ==
    (pc \notin {"idle", "head"} /\ SkipCondition) =>
        /\ SkippedDownload
        /\ result = "file" /\ failedAt = "" /\ offset = 0

\* C9 as amended: such a Fetch returns a handle to that file, at offset 0, or
\* the error of os.Open when the file cannot be opened, having received no
\* progress event, issued no GET and closed the sink.
C9_CacheHitSkipsDownloadOrOpenError ==
    (pc \notin {"idle", "head"} /\ SkipCondition) =>
        /\ SkippedDownload
        /\ \/ result = "file" /\ failedAt = "" /\ offset = 0
           \/ result = "err" /\ failedAt = "open" /\ offset = NoHandle

\* A second call, with a sink, was answered from the file the first call left.
C9_Witness ==
    /\ calls = 2
    /\ how = "cache"
    /\ sink = "closed"
    /\ result = "file"
    /\ dest.exists
    /\ Len(dest.data) = size
    /\ size > 0

\* C10 as claimed: once the preflight has succeeded, Fetch skips the download
\* exactly when the skip condition holds, and downloads otherwise.
C10_SkipIffElseDownload ==
    (pc = "returned" /\ failedAt \notin {"url", "head"}) =>
        IF SkipCondition THEN how = "cache" ELSE how = "download"

\* C10 as amended: Fetch skips the download exactly when the skip condition
\* holds; otherwise it goes on to parallelFetch, except that it returns an
\* error, without downloading, when the marker of a token seen for the first
\* time cannot be created.
C10_SkipIffElseDownloadOrMarkerError ==
    /\ how = "cache" => SkipCondition
    /\ pc \in {"pfetch", "wait", "assemble", "fetched"} => ~SkipCondition
    /\ failedAt = "marker" => (etag /\ token # "" /\ ~hadMarker /\ how = "")
    /\ (pc = "returned" /\ failedAt \notin {"url", "head"}) =>
        IF SkipCondition THEN how = "cache"
        ELSE how = "download" \/ failedAt = "marker"

\* The marker of the token exists but the destination file has not the reported
\* size: the resource is downloaded again.
C10_Witness ==
    /\ etag
    /\ token # ""
    /\ hadMarker
    /\ ~sizeOk
    /\ how = "download"
    /\ pc = "returned"

\* C11: a marker on disk means that a download for its token completed.  In
\* particular a Fetch that found no marker for the token the server sent, and
\* then failed, has left no marker of that token behind.
C11_MarkerMeansCompleted ==
    (pc = "returned" /\ result = "err" /\ token # "" /\ ~hadMarker) =>
        token \notin markers

\* The sizes of the chunk files 0..n-1.
ChunkSizes(n) == [k \in 1..n |-> Len(chunks[k - 1].data)]

\* C12: with a supported algorithm configured, when parallelFetch has assembled
\* the file and its digest differs from the expected one, Fetch returns an
\* error and no file handle (the mismatch, unless the file could not be read),
\* and the destination file stays on disk with everything that was assembled
\* into it: the assembly leaves it with the size of all the chunk files
\* together and the verification does not touch the disk.
C12_MismatchKeepsFile ==
    /\ [](  (pc = "returned" /\ how = "download" /\ assembles > 0
               /\ failedAt \notin {"create", "chunk", "copy", "seek"}
               /\ algorithm \in Supported
               /\ Digest(algorithm, dest.data) # checksum)
            => (/\ result = "err"
                /\ failedAt \in {"checksum", "vseek", "vread"}
                /\ offset = NoHandle
                /\ dest.exists))
    /\ [][ /\ (pc = "assemble" /\ pc' = "fetched" /\ failedAt' = "")
              => (/\ dest'.exists
                  /\ Len(dest'.data) = SumSeq(ChunkSizes(concurrency)))
           /\ (pc = "fetched" /\ failedAt' = "checksum")
              => (/\ disk' = disk
                  /\ dest.exists
                  /\ Digest(algorithm, dest.data) # checksum) ]_vars

\* The whole resource was downloaded in two ranges and assembled, the expected
\* digest is another one: Fetch failed and the file is there, complete.
C12_Witness ==
    /\ pc = "returned"
    /\ failedAt = "checksum"
    /\ result = "err"
    /\ concurrency = 2
    /\ size = 2
    /\ dest = File(Bytes(0, size - 1))

\* C13: when the preflight response carries no content length (length = -1)
\* and the Fetcher was given a concurrency >= 1, one range only is fetched,
\* range 0, and every request made for it is open-ended (once the chunk
\* directory is made and the ranges are started).
C13_UnknownLengthOneOpenRange ==
    (length = -1 /\ how = "download" /\ concurrency >= 1
        /\ pc \in {"wait", "assemble", "returned"} /\ failedAt # "mkdir") =>
        /\ Active = {0}
        /\ \A r \in reqs : r.chunk = 0 /\ r.open

\* The sum of WrittenBytes over the reports received from worker i, and from all.
ReportedBy(i) == SumSeq(Written(i))

Reported == SumSeq([k \in 1..MaxConc |-> ReportedBy(k - 1)])

\* The bytes of the response bodies written in this call: what the Write calls
\* reported, every report of a worker but its first.
Streamed ==
    SumSeq([k \in 1..MaxConc |->
               IF evts[k - 1] = <<>> THEN 0 ELSE SumSeq(Tail(Written(k - 1)))])

\* The bytes the chunk files of this call's workers held when they were opened.
PriorBytes == SumSeq([k \in 1..MaxConc |-> wcur[k - 1]])

TotalsAre(t) == \A i \in Workers : \A k \in 1..Len(evts[i]) : evts[i][k].Total = t

\* C14 as claimed: without a content length every report carries Total = -1,
\* and after a successful Fetch the sum of WrittenBytes is the number of bytes
\* the server streamed, which is the size of the file.
C14_SumIsStreamedBytes ==
    (length = -1 /\ how = "download" /\ sink # "nil") =>
        /\ TotalsAre(-1)
        /\ (pc = "returned" /\ result = "file") =>
              (Reported = Streamed /\ Streamed = Len(dest.data))

\* C14 as amended: every report carries Total = -1 and after a successful Fetch
\* the sum of WrittenBytes is the size of the file; the bytes streamed are that
\* size less the bytes the chunk files held before, which the workers report
\* first.
C14_SumIsFileSize ==
    (length = -1 /\ how = "download" /\ sink # "nil") =>
        /\ TotalsAre(-1)
        /\ (pc = "returned" /\ result = "file") =>
              /\ Reported = Len(dest.data)
              /\ Streamed = Len(dest.data) - PriorBytes

\* A Fetch without content length resumed a chunk file of one byte: one byte was
\* streamed, two were reported, the file has two.
C14_Witness ==
    /\ length = -1
    /\ pc = "returned"
    /\ result = "file"
    /\ sink = "closed"
    /\ wcur[0] = 1
    /\ Streamed = 1
    /\ Reported = 2
    /\ dest = File(Bytes(0, 1))

\* Nothing is on disk: no chunk directory, chunk file, marker or destination file.
DiskEmpty ==
    /\ ~chunksDir
    /\ \A i \in DOMAIN chunks : ~chunks[i].exists
    /\ ~dest.exists
    /\ markers = {}

\* C15: a Fetch of a Fetcher whose concurrency is below 1 ends with an error
\* returned, never with a file handle, and no GET was issued and no worker
\* started.
C15_ConcurrencyBelowOneRejected ==
    (Returned /\ concurrency < 1) =>
        /\ result = "err"
        /\ reqs = {}
        /\ Active = {}

\* A Fetch of a resource of known length, at concurrency 1, from a server that
\* honours the Range header, has returned the file after resuming a chunk-0
\* file of n bytes, 0 < n < length, with a sink to report to.
ResumedOneRange ==
    /\ pc = "returned"
    /\ result = "file"
    /\ how = "download"
    /\ sink # "nil"
    /\ concurrency = 1
    /\ length = size
    /\ ~ignored
    /\ 0 < wcur[0]
    /\ wcur[0] < length

\* C16 as claimed: after such a resumed Fetch the sum of WrittenBytes is the
\* length less the n bytes that were there, and the file has the whole length.
C16_ResumeReportsRemainder ==
    ResumedOneRange =>
        /\ Reported = length - wcur[0]
        /\ Len(dest.data) = length

\* C16 as amended: the n bytes that were there are reported first, then the
\* length - n bytes downloaded: the sum of WrittenBytes is the whole length,
\* and the file is the resource, of that length.
C16_ResumeReportsWholeLength ==
    ResumedOneRange =>
        /\ Written(0)[1] = wcur[0]
        /\ Streamed = length - wcur[0]
        /\ Reported = length
        /\ dest = File(Bytes(0, length - 1))

\* One byte of two was there; the resumed Fetch asked for the second only.
C16_Witness ==
    /\ ResumedOneRange
    /\ length = 2
    /\ wcur[0] = 1
    /\ reqs = {[chunk |-> 0, first |-> 1, last |-> 1, open |-> FALSE]}
    /\ Reported = 2

\* C17: after a successful Fetch of a resource of known length, at a
\* concurrency >= 1, that returned the resource whole, the sum of WrittenBytes
\* over the reports received is the length, whatever the chunk files held
\* before.
C17_SumIsLength ==
    (pc = "returned" /\ result = "file" /\ how = "download" /\ sink # "nil"
        /\ concurrency >= 1 /\ length = size /\ ~ignored
        /\ dest = File(Bytes(0, size - 1))) =>
        Reported = length

\* What the ranges i..n-1 of a resource of L bytes, planned for concurrency c,
\* put in their chunk files when nothing was there and the server honours the
\* Range header, one after the other: each body cut to the width of its range.
RECURSIVE Downloaded(_, _, _, _)
Downloaded(L, c, i, n) ==
    IF i >= n THEN <<>>
    ELSE LET lo == RangeMin(L, c, i)
             hi == RangeMax(L, c, i)
         IN  Take(ServeRange(L, lo, hi - 1, FALSE).body, hi - lo)
                 \o Downloaded(L, c, i + 1, n)

\* C18: a successful Fetch of a resource of known length from a server that
\* honours the Range header, with no chunk data on disk before, leaves a
\* destination file that is the resource, byte for byte and of the content
\* length, at every concurrency >= 1: the files of any two concurrency levels
\* are identical.  The same holds of what the ranges planned for the lengths
\* 1..PlanLen at the concurrency levels 1..PlanConc download, range by range.
C18_SameFileAtEveryConcurrency ==
    /\ (pc = "returned" /\ result = "file" /\ how = "download"
          /\ concurrency >= 1 /\ length = size /\ ~ignored /\ PriorBytes = 0) =>
          /\ dest = File(Bytes(0, size - 1))
          /\ Len(dest.data) = length
    /\ pc = "idle" =>
          \A L \in 1..PlanLen, c \in 1..PlanConc :
              c <= L => Downloaded(L, c, 0, c) = Bytes(0, L - 1)

\* The resource of two bytes was downloaded in two ranges, from nothing.
C18_Witness ==
    /\ pc = "returned"
    /\ result = "file"
    /\ concurrency = 2
    /\ size = 2
    /\ ~ignored
    /\ PriorBytes = 0
    /\ reqs = {[chunk |-> 0, first |-> 0, last |-> 0, open |-> FALSE],
               [chunk |-> 1, first |-> 1, last |-> 1, open |-> FALSE]}
    /\ dest = File(<<0, 1>>)

\* C19: when the URL is empty or the preflight request fails or is answered
\* with a non-2xx status, Fetch returns an error and no handle, having issued
\* no GET, started no worker and entered no download; the step that returns
\* leaves the disk as it was, so nothing is on disk after a first such call.
C19_PreflightFailureTouchesNothing ==
    /\ []( (pc = "returned" /\ failedAt \in {"url", "head"}) =>
              /\ result = "err"
              /\ offset = NoHandle
              /\ how = ""
              /\ reqs = {}
              /\ Active = {}
              /\ calls = 1 => DiskEmpty )
    /\ [][ (failedAt' \in {"url", "head"} /\ <<pc, calls>>' # <<pc, calls>>)
              => disk' = disk ]_vars

\* A second call failed in the preflight request: the chunk file the first call
\* left is still there, nothing else is.
C19_Witness ==
    /\ pc = "returned"
    /\ failedAt = "head"
    /\ calls = 2
    /\ chunks[0] = File(<<0>>)
    /\ ~dest.exists
    /\ markers = {}
    /\ reqs = {}

\* The destination file d holds the chunk files 0..n-1 one after the other in
\* the order of their indexes, and nothing else.
InIndexOrder(d, n) ==
    /\ Len(d) = SumSeq(ChunkSizes(n))
    /\ \A i \in 0..(n - 1) :
          SubSeq(d, SumSeq(ChunkSizes(i)) + 1, SumSeq(ChunkSizes(i + 1)))
              = chunks[i].data

\* C20: the step that assembles the destination file without error writes the
\* chunk files into it in the order of their indexes 0..concurrency-1, whatever
\* order the workers finished in, and Fetch returns that file as it is; after
\* it (for a concurrency of 1 or more, so that there are chunk files) the chunk
\* directory and the chunk files are gone and the handle returned is at offset 0.
C20_AssembledInIndexOrder ==
    /\ [][ /\ (pc = "assemble" /\ pc' = "fetched" /\ failedAt' = "") =>
                /\ dest'.exists
                /\ InIndexOrder(dest'.data, concurrency)
           /\ (pc = "fetched" /\ result' = "file") => dest' = dest ]_vars
    /\ []( (pc = "returned" /\ result = "file" /\ how = "download"
                /\ concurrency >= 1) =>
              /\ ~chunksDir
              /\ \A i \in DOMAIN chunks : ~chunks[i].exists
              /\ offset = 0 )

\* s is the beginning of t.
IsPrefix(s, t) == Len(s) <= Len(t) /\ SubSeq(t, 1, Len(s)) = s

\* Worker i has fetched its range [wmin, wmax) of a resource of known length
\* without error, from a server that honours the Range header, after finding
\* n bytes in its chunk file, 0 < n < wmax - wmin; the chunk file is still there.
ResumedTail(i) ==
    /\ pc \in {"wait", "assemble"}
    /\ wpc[i] = "done"
    /\ i \notin failed
    /\ length = size
    /\ ~ignored
    /\ 0 < wcur[i]
    /\ wcur[i] < wmax[i] - wmin[i]

\* C21: a worker that finds n bytes in the chunk file of its range
\* [start, end), 0 < n < end - start, makes one request, for bytes
\* (start+n)-(end-1), and appends the answer to what was there (while the
\* download runs a chunk file only grows at its end); after the worker's
\* successful run against a server that honours Range the chunk file is the
\* bytes [start, end) of the resource.
C21_ResumeRequestsMissingTail ==
    /\ []( \A i \in DOMAIN wpc : ResumedTail(i) =>
              /\ {r \in reqs : r.chunk = i}
                   = {[chunk |-> i, first |-> wmin[i] + wcur[i],
                       last |-> wmax[i] - 1, open |-> FALSE]}
              /\ chunks[i].data = Bytes(wmin[i], wmax[i] - 1) )
    /\ [][ pc = "wait" =>
              \A i \in DOMAIN wpc : IsPrefix(chunks[i].data, chunks'[i].data) ]_vars

\* C22 as claimed: at concurrency 1, requested or forced, no chunk directory
\* is created: a first call never finds itself with one.
C22_NoChunkDirAtConcurrencyOne ==
    (concurrency = 1 /\ calls = 1) => ~chunksDir

\* C22 as amended: at concurrency 1 the chunk directory is made like at any
\* other concurrency and the one range is written to chunk file 0 in it (the
\* file is there once the range was requested); the destination file is not
\* touched while the range is downloaded.
C22_ChunkDirAtConcurrencyOne ==
    /\ []( (concurrency = 1 /\ pc \in {"wait", "assemble"}) =>
              /\ chunksDir
              /\ Active = {0}
              /\ (\E r \in reqs : r.chunk = 0) => chunks[0].exists
              /\ Len(chunks[0].data) >= SumSeq(Written(0)) )
    /\ [][ (concurrency = 1 /\ pc = "wait") => dest' = dest ]_vars

\* In a first call at concurrency 1 the first byte of the resource is in chunk
\* file 0 of the chunk directory, and there is no destination file.
C22_Witness ==
    /\ concurrency = 1
    /\ calls = 1
    /\ pc = "wait"
    /\ chunksDir
    /\ size = 2
    /\ chunks[0] = File(<<0>>)
    /\ ~dest.exists

\* C23: no step of a Fetch call changes the Fetcher's configuration: the
\* concurrency, the ETag flag, the algorithm and the checksum stay what New set.
C23_ConfigurationUnchanged ==
    [][ <<concurrency, etag, algorithm, checksum>>'
          = <<concurrency, etag, algorithm, checksum>> ]_vars

\* C24: when the length is known, the chunk file of a non-empty range
\* [min, max) never holds more than max - min bytes, whatever it held at the
\* start (at most max - min bytes) and whatever body the server sent.
C24_ChunkNeverExceedsRange ==
    (pc \in {"wait", "assemble"} /\ length = size)
        => \A i \in Active :
              (wpc[i] # "start" /\ 0 < currChunkSize(i)
                                /\ wcur[i] <= currChunkSize(i))
                  => FileSize(i) <= currChunkSize(i)

\* C25: a Fetch of a resource of known length that succeeds over chunk files
\* left by an interrupted Fetch of the same URL, whatever concurrency that one
\* ran with, returns a file of exactly length bytes, equal to the resource
\* (every request of this Fetch answered by a range-honouring server).
C25_SuccessIsTheResource ==
    (pc = "returned" /\ result = "file" /\ length = size /\ ~ignored)
        => /\ Len(dest.data) = length
           /\ dest = File(Bytes(0, size - 1))

\* C26: a Fetch that fails in the download stage (a range failed) leaves the
\* destination file as it was and keeps the chunk directory with the chunk file
\* of every range that was requested or had bytes on disk; while the ranges are
\* downloaded, and when Fetch returns the error, no chunk file loses a byte and
\* the destination is not written; the chunk directory is removed only by an
\* assembly that found every chunk file and copied them all.
C26_FailedDownloadKeepsFiles ==
    /\ []( (pc = "returned" /\ failedAt = "ranges") =>
              /\ result = "err"
              /\ chunksDir
              /\ \A i \in Active :
                    /\ (wcur[i] > 0 \/ \E r \in reqs : r.chunk = i)
                          => chunks[i].exists
                    /\ FileSize(i) >= wcur[i] )
    /\ [][ /\ pc \in {"wait", "fetched"} =>
              /\ dest' = dest
              /\ chunksDir' = chunksDir
              /\ \A i \in Workers :
                    /\ chunks[i].exists => chunks'[i].exists
                    /\ IsPrefix(chunks[i].data, chunks'[i].data)
           /\ dest' # dest => pc = "assemble"
           /\ (chunksDir /\ ~chunksDir') =>
                 /\ pc = "assemble"
                 /\ ChunksPresent(concurrency)
                 /\ dest' = File(CopyChunks(0, concurrency)) ]_vars

\* The second Fetch failed after one more byte was written to chunk file 0: the
\* file the first Fetch returned is still whole, the chunk file is on disk.
C26_Witness ==
    /\ calls = 2
    /\ pc = "returned"
    /\ failedAt = "ranges"
    /\ size = 2
    /\ dest = File(Bytes(0, size - 1))
    /\ chunksDir
    /\ chunks[0] = File(<<0>>)

====
